---------------------------- MODULE Spec2Model ----------------------------
(***************************************************************************)
(* Model of the four agent graphs of agent_blueprint.py (ReAct,            *)
(* Plan-Execute, Self-Reflection, Multi-Agent) as they are run by          *)
(* server.py's invoke_agent.  A graph run is a sequence of node steps:     *)
(* each step calls the node function on the current state, merges the     *)
(* returned partial update into the state (messages are concatenated,      *)
(* every other field is replaced), and resolves the outgoing edge of the   *)
(* node - a fixed edge, or a router whose result is looked up in the       *)
(* edge's destination mapping.                                             *)
(*                                                                         *)
(* The reasoning oracle (the LLM) is nondeterministic: every node action   *)
(* draws the oracle's reply from a small set.  Message text is abstracted: *)
(* a message keeps its type, its tool calls and the tool-call id it        *)
(* answers, which is all the routers and the tool node read.  Scores are   *)
(* kept in tenths (8.5 is 85).                                             *)
(***************************************************************************)
EXTENDS Integers, Sequences, FiniteSets, TLC

VARIABLES
    pattern,    \* request.pattern: the graph that runs
    state,      \* the graph state (a record: the pattern's TypedDict)
    node,       \* the node that executes next, or END
    status,     \* "running", "done" (END reached), "failed" (exception raised)
    error,      \* type name of the exception that ended the run, or "none"
    steps,      \* number of node steps executed so far
    trace,      \* history: the node steps executed, in order
    lastRoute,  \* history: the last edge resolved, [from, value]
    response,   \* what invoke_agent returned to the caller, or NoResponse
    checkpoint, \* the thread's entry in the agent's MemorySaver
    attempt,    \* number of requests repeated on the thread so far
    endpoint,   \* "invoke" (/agent/invoke) or "stream" (/agent/stream)
    events,     \* what generate_stream has yielded so far
    finished,   \* the tool calls of the running batch that have returned, in
                \* the order they returned
    requests,   \* the server's requests in flight, when several are looked at
    store,      \* the agents' MemorySavers: (pattern, thread id) -> checkpoint
    metrics     \* REQUEST_COUNT by status, and AGENT_ERRORS

vars == <<pattern, state, node, status, error, steps, trace, lastRoute, response,
          checkpoint, attempt, endpoint, events, finished, requests, store, metrics>>

(***************************************************************************)
(* Bounds of the model.                                                    *)
(***************************************************************************)
MaxIter == 3        \* request.max_iterations ranges over 0..MaxIter
MaxBatch == 1       \* tool calls in one assistant message: 0..MaxBatch
MaxPlanLines == 4   \* lines in the planner's reply: 0..MaxPlanLines
StepBudget == 16    \* the step ceiling of a run; the source sets no value for it

(***************************************************************************)
(* Program constants.                                                      *)
(***************************************************************************)
QualityThreshold == 85   \* state["quality_score"] >= 8.5
DefaultScore == 75       \* score = 7.5  # default

END == "__end__"
START == "__start__"

Last(s) == s[Len(s)]
Range(s) == {s[i] : i \in DOMAIN s}
Count(n) == Cardinality({i \in DOMAIN trace : trace[i].node = n})

(***************************************************************************)
(* Messages.                                                               *)
(***************************************************************************)
HumanMessage == [type |-> "human", tool_calls |-> <<>>, tool_call_id |-> 0]
AIMessage(calls) == [type |-> "ai", tool_calls |-> calls, tool_call_id |-> 0]
ToolMessage(id) == [type |-> "tool", tool_calls |-> <<>>, tool_call_id |-> id]

\* tools = [get_stock_price, get_stock_history, vector_db_search]
tools == <<"get_stock_price", "get_stock_history", "vector_db_search">>

\* hasattr(last_message, "tool_calls") and last_message.tool_calls
HasToolCalls(s) ==
    /\ Len(s.messages) > 0
    /\ Last(s.messages).type = "ai"
    /\ Last(s.messages).tool_calls # <<>>

(***************************************************************************)
(* The oracle.  llm_with_tools.invoke answers with an assistant message    *)
(* carrying 0..MaxBatch tool calls, each with a fresh call id; llm.invoke  *)
(* (no tools bound) answers with plain text.                               *)
(***************************************************************************)
ToolCalls(s, n) ==
    [k \in 1..n |-> [name |-> tools[((k - 1) % Len(tools)) + 1],
                     id |-> Len(s.messages) * (MaxBatch + 1) + k]]

LlmWithTools(s) == {AIMessage(ToolCalls(s, n)) : n \in 0..MaxBatch}

PlainAnswer == AIMessage(<<>>)

(***************************************************************************)
(* StateGraph merge: messages is Annotated[..., operator.add], every other *)
(* field is replaced.                                                      *)
(***************************************************************************)
\* mutant: messages is replaced like every other field
Apply_Overwrite(s, partial) ==
    [f \in DOMAIN s \cup DOMAIN partial |->
        IF f \in DOMAIN partial THEN partial[f] ELSE s[f]]

\* mutant: new messages are put in front of the old ones
Apply_Prepend(s, partial) ==
    [f \in DOMAIN s \cup DOMAIN partial |->
        IF f \in DOMAIN partial
        THEN IF f = "messages" /\ f \in DOMAIN s THEN partial[f] \o s[f] ELSE partial[f]
        ELSE s[f]]

\* a field the state has no value for yet takes the update's value
Apply(s, partial) ==
    [f \in DOMAIN s \cup DOMAIN partial |->
        IF f \in DOMAIN partial
        THEN IF f = "messages" /\ f \in DOMAIN s THEN s[f] \o partial[f] ELSE partial[f]
        ELSE s[f]]

\* mutant: the results are collected as the tools return
ToolResults_AsCompleted(calls, done) ==
    [k \in 1..Len(done) |-> ToolMessage(done[k].id)]

\* ToolNode maps the tool calls over a thread pool and collects the results
\* in the order of the calls, whatever the order the tools returned in (done)
ToolResults(calls, done) ==
    [k \in 1..Len(calls) |-> ToolMessage(calls[k].id)]

\* ToolNode: one ToolMessage per tool call of the last message, in request order
tool_node(s) ==
    LET calls == Last(s.messages).tool_calls
    IN  [messages |-> ToolResults(calls, calls)]

(***************************************************************************)
(* PATTERN 1: ReAct                                                        *)
(***************************************************************************)
reasoning_node(s, resp) ==
    [messages |-> <<resp>>, iteration |-> s.iteration + 1]

\* mutant: the tool calls are looked at before the iteration limit
react_should_continue_ToolsFirst(s) ==
    IF HasToolCalls(s) THEN "tools"
    ELSE "end"

react_should_continue(s) ==
    IF s.iteration >= s.max_iterations THEN "end"
    ELSE IF HasToolCalls(s) THEN "tools"
    ELSE "end"

ReactEdges == [tools |-> "tools", end |-> END]

(***************************************************************************)
(* PATTERN 2: Plan-Execute                                                 *)
(*                                                                         *)
(* The planner's reply is a text of lines.  A line is kept as a plan step  *)
(* when line.strip() is not empty and line[0] is a digit.  A line is       *)
(* modelled by its first character class and whether anything but blanks   *)
(* is on it; the plan step it yields is named by its line number.          *)
(***************************************************************************)
LineKinds ==
    { [first |-> "digit", blank |-> FALSE],    \* "1. Get current price"
      [first |-> "space", blank |-> FALSE],    \* "  2. indented item"
      [first |-> "alpha", blank |-> FALSE],    \* "Here is the plan:"
      [first |-> "space", blank |-> TRUE],     \* "   "
      [first |-> "none",  blank |-> TRUE] }    \* ""

PlannerReplies == UNION {[1..n -> LineKinds] : n \in 0..MaxPlanLines}

\* [line.strip() for line in plan_text.split('\n') if line.strip() and line[0].isdigit()]
RECURSIVE ParsePlanFrom(_, _)
ParsePlanFrom(lines, i) ==
    IF i > Len(lines) THEN <<>>
    ELSE IF ~lines[i].blank /\ lines[i].first = "digit"
         THEN <<i>> \o ParsePlanFrom(lines, i + 1)
         ELSE ParsePlanFrom(lines, i + 1)

ParsePlan(lines) == ParsePlanFrom(lines, 1)

planner_node(s, reply) ==
    [plan |-> ParsePlan(reply),
     current_step |-> 0,
     results |-> <<>>,
     messages |-> <<PlainAnswer>>]

\* the early return of executor_node: no oracle call is made
ExecutorIdle(s) == s.current_step >= Len(s.plan)

\* mutant: the index stays where it is when the reply asks for tools
executor_node_HoldOnTools(s, resp) ==
    IF ExecutorIdle(s)
    THEN [messages |-> <<PlainAnswer>>]
    ELSE [messages |-> <<resp>>,
          current_step |-> IF resp.tool_calls # <<>> THEN s.current_step
                           ELSE s.current_step + 1]

executor_node(s, resp) ==
    IF ExecutorIdle(s)
    THEN [messages |-> <<PlainAnswer>>]
    ELSE [messages |-> <<resp>>, current_step |-> s.current_step + 1]

\* mutant: the completion test is off by one
plan_should_continue_OffByOne(s) ==
    IF HasToolCalls(s) THEN "tools"
    ELSE IF s.current_step + 1 >= Len(s.plan) THEN "synthesize"
    ELSE "execute"

plan_should_continue(s) ==
    IF HasToolCalls(s) THEN "tools"
    ELSE IF s.current_step >= Len(s.plan) THEN "synthesize"
    ELSE "execute"

plan_synthesizer_node(s) == [messages |-> <<PlainAnswer>>]

PlanEdges == [execute |-> "executor", tools |-> "tools", synthesize |-> "synthesizer"]

(***************************************************************************)
(* PATTERN 3: Self-Reflection                                              *)
(*                                                                         *)
(* The critic's reply is modelled by what the score parse reads of it:     *)
(* whether it contains "SCORE:", and whether the text between the marker   *)
(* and the next "/" is a number (value, in tenths).                        *)
(***************************************************************************)
ScoreValues == {50, 85, 90}

CriticReplies ==
    {[marker |-> TRUE, numeric |-> TRUE, value |-> v] : v \in ScoreValues}
    \cup { [marker |-> TRUE,  numeric |-> FALSE, value |-> 0],     \* "SCORE: high/10"
           [marker |-> FALSE, numeric |-> TRUE,  value |-> 90],    \* "9.0/10, good"
           [marker |-> FALSE, numeric |-> FALSE, value |-> 0] }    \* "Looks fine."

\* mutant: the number is read whether or not the marker is there
ParseScore_NoMarker(content) ==
    IF content.numeric THEN content.value ELSE DefaultScore

ParseScore(content) ==
    IF content.marker /\ content.numeric THEN content.value ELSE DefaultScore

generator_node(s, resp) ==
    [messages |-> <<resp>>, iteration |-> s.iteration + 1]

\* mutant: the score is returned under a name the schema does not declare
critic_node_Score(s, content) ==
    [critique |-> <<content>>,
     score |-> IF content.marker /\ content.numeric THEN content.value ELSE DefaultScore,
     messages |-> <<PlainAnswer>>]

critic_node(s, content) ==
    [critique |-> <<content>>,
     quality_score |-> ParseScore(content),
     messages |-> <<PlainAnswer>>]

\* mutant: the end test comes before the tool calls, as in the ReAct router
reflect_should_continue_EndFirst(s) ==
    IF s.quality_score >= QualityThreshold \/ s.iteration >= s.max_iterations
    THEN "end"
    ELSE IF HasToolCalls(s) THEN "tools"
    ELSE "generate"

reflect_should_continue(s) ==
    IF HasToolCalls(s) THEN "tools"
    ELSE IF s.quality_score >= QualityThreshold \/ s.iteration >= s.max_iterations
         THEN "end"
    ELSE "generate"

ReflectEdges == [generate |-> "critic", tools |-> "tools", end |-> END]

(***************************************************************************)
(* PATTERN 4: Adaptive Multi-Agent                                         *)
(*                                                                         *)
(* The supervisor's reply is a name, possibly surrounded by blanks and     *)
(* possibly written with capitals; strip() removes the first, lower() the  *)
(* second, and only a plain name can equal an entry of valid_agents.       *)
(***************************************************************************)
valid_agents ==
    <<"data_collector", "technical_analyst", "research_analyst",
      "risk_assessor", "synthesizer">>

ReplyNames == Range(valid_agents) \cup {"supervisor", "analyst"}

SupervisorReplies == [name : ReplyNames, padded : BOOLEAN, capitals : BOOLEAN]

Strip(text) == [text EXCEPT !.padded = FALSE]
Lower(text) == [text EXCEPT !.capitals = FALSE]
Plain(name) == [name |-> name, padded |-> FALSE, capitals |-> FALSE]

\* mutant: the reply is not validated
supervisor_node_Unvalidated(s, content) ==
    [next_agent |-> Lower(Strip(content)).name,
     messages |-> <<PlainAnswer>>]

supervisor_node(s, content) ==
    LET next_agent == Lower(Strip(content))
    IN  [next_agent |-> IF \E a \in Range(valid_agents) : next_agent = Plain(a)
                        THEN next_agent.name
                        ELSE "data_collector",
         messages |-> <<PlainAnswer>>]

\* state.get(f, default)
Get(s, f, default) == IF f \in DOMAIN s THEN s[f] ELSE default

\* findings[key] = value
Put(d, key, value) ==
    [k \in DOMAIN d \cup {key} |-> IF k = key THEN value ELSE d[k]]

data_collector_node(s, resp) ==
    [messages |-> <<resp>>,
     completed_agents |-> Append(Get(s, "completed_agents", <<>>), "data_collector"),
     findings |-> Put(Get(s, "findings", <<>>), "data_collection", "Stock data gathered")]

technical_analyst_node(s) ==
    [messages |-> <<PlainAnswer>>,
     completed_agents |-> Append(Get(s, "completed_agents", <<>>), "technical_analyst"),
     findings |-> Put(Get(s, "findings", <<>>), "technical_analysis", "Pattern analysis complete")]

research_analyst_node(s, resp) ==
    [messages |-> <<resp>>,
     completed_agents |-> Append(Get(s, "completed_agents", <<>>), "research_analyst"),
     findings |-> Put(Get(s, "findings", <<>>), "research", "Market context analyzed")]

\* confidence = np.random.uniform(0.6, 0.95), in hundredths
ConfidenceValues == {60, 95}

risk_assessor_node(s, confidence) ==
    [messages |-> <<PlainAnswer>>,
     completed_agents |-> Append(Get(s, "completed_agents", <<>>), "risk_assessor"),
     findings |-> Put(Get(s, "findings", <<>>), "risk_assessment", "Risks evaluated"),
     confidence |-> confidence]

synthesizer_node(s) ==
    [messages |-> <<PlainAnswer>>,
     completed_agents |-> Append(Get(s, "completed_agents", <<>>), "synthesizer")]

\* The state object a node received, as it is once the node has returned.
\* A specialist takes the list and the dict out of the state with
\* state.get and changes them in place (completed.append, findings[k] = v)
\* before it returns them; the other nodes build new values.
InputAfter(p, n, s) ==
    IF p = "multi_agent" /\ n \in Range(valid_agents)
    THEN LET update == CASE n = "data_collector" -> data_collector_node(s, PlainAnswer)
                         [] n = "technical_analyst" -> technical_analyst_node(s)
                         [] n = "research_analyst" -> research_analyst_node(s, PlainAnswer)
                         [] n = "risk_assessor" -> risk_assessor_node(s, 0)
                         [] n = "synthesizer" -> synthesizer_node(s)
         IN  [f \in DOMAIN s |->
                 IF f \in {"completed_agents", "findings"} /\ f \in DOMAIN update
                 THEN update[f]
                 ELSE s[f]]
    ELSE s

\* mutant: the completed synthesizer is not looked at
route_to_agent_NoEndCheck(s) ==
    IF HasToolCalls(s) THEN "tools"
    ELSE Get(s, "next_agent", "supervisor")

route_to_agent(s) ==
    IF HasToolCalls(s) THEN "tools"
    ELSE IF "synthesizer" \in Range(Get(s, "completed_agents", <<>>)) THEN "end"
    ELSE Get(s, "next_agent", "supervisor")

SupervisorEdges ==
    [data_collector |-> "data_collector",
     technical_analyst |-> "technical_analyst",
     research_analyst |-> "research_analyst",
     risk_assessor |-> "risk_assessor",
     synthesizer |-> "synthesizer",
     tools |-> "tools",
     end |-> END]

SpecialistEdges == [supervisor |-> "supervisor", tools |-> "tools", end |-> END]

(***************************************************************************)
(* Graph wiring: the router and the destination mapping of every node's    *)
(* outgoing edge.  A fixed edge (add_edge) is a one-entry mapping.         *)
(***************************************************************************)
FixedEdge(dest) == [next |-> dest]

\* mutant: the tool results go back to the planner
PlanExecuteEdges_ToolsToPlanner(n) ==
    CASE n = "planner" -> FixedEdge("executor")
      [] n = "executor" -> PlanEdges
      [] n = "tools" -> FixedEdge("planner")
      [] n = "synthesizer" -> FixedEdge(END)

PlanExecuteEdges(n) ==
    CASE n = "planner" -> FixedEdge("executor")
      [] n = "executor" -> PlanEdges
      [] n = "tools" -> FixedEdge("executor")
      [] n = "synthesizer" -> FixedEdge(END)

MultiAgentEdges(n) ==
    CASE n = "supervisor" -> SupervisorEdges
      [] n = "tools" -> FixedEdge("supervisor")
      [] OTHER -> SpecialistEdges

Edges(p, n) ==
    CASE p = "react" ->
           (IF n = "reasoning" THEN ReactEdges ELSE FixedEdge("reasoning"))
      [] p = "plan_execute" -> PlanExecuteEdges(n)
      [] p = "reflection" ->
           (IF n = "generator" THEN ReflectEdges ELSE FixedEdge("generator"))
      [] p = "multi_agent" -> MultiAgentEdges(n)

Conditional(p, n) ==
    CASE p = "react" -> n = "reasoning"
      [] p = "plan_execute" -> n = "executor"
      [] p = "reflection" -> n = "generator"
      [] p = "multi_agent" -> n # "tools"

Router(p, s) ==
    CASE p = "react" -> react_should_continue(s)
      [] p = "plan_execute" -> plan_should_continue(s)
      [] p = "reflection" -> reflect_should_continue(s)
      [] p = "multi_agent" -> route_to_agent(s)

Route(p, n, s) == IF Conditional(p, n) THEN Router(p, s) ELSE "next"

(***************************************************************************)
(* The partial updates node n of pattern p can return in state s, one per  *)
(* reply of the oracle.                                                    *)
(***************************************************************************)
ReactOutputs(n, s) ==
    CASE n = "reasoning" -> {reasoning_node(s, resp) : resp \in LlmWithTools(s)}
      [] n = "tools" -> {tool_node(s)}

PlanExecuteOutputs(n, s) ==
    CASE n = "planner" -> {planner_node(s, reply) : reply \in PlannerReplies}
      [] n = "executor" ->
           (IF ExecutorIdle(s) THEN {executor_node(s, PlainAnswer)}
            ELSE {executor_node(s, resp) : resp \in LlmWithTools(s)})
      [] n = "tools" -> {tool_node(s)}
      [] n = "synthesizer" -> {plan_synthesizer_node(s)}

ReflectionOutputs(n, s) ==
    CASE n = "generator" -> {generator_node(s, resp) : resp \in LlmWithTools(s)}
      [] n = "critic" -> {critic_node(s, content) : content \in CriticReplies}
      [] n = "tools" -> {tool_node(s)}

MultiAgentOutputs(n, s) ==
    CASE n = "supervisor" ->
           {supervisor_node(s, content) : content \in SupervisorReplies}
      [] n = "data_collector" ->
           {data_collector_node(s, resp) : resp \in LlmWithTools(s)}
      [] n = "technical_analyst" -> {technical_analyst_node(s)}
      [] n = "research_analyst" ->
           {research_analyst_node(s, resp) : resp \in LlmWithTools(s)}
      [] n = "risk_assessor" ->
           {risk_assessor_node(s, confidence) : confidence \in ConfidenceValues}
      [] n = "synthesizer" -> {synthesizer_node(s)}
      [] n = "tools" -> {tool_node(s)}

NodeOutputs(p, n, s) ==
    CASE p = "react" -> ReactOutputs(n, s)
      [] p = "plan_execute" -> PlanExecuteOutputs(n, s)
      [] p = "reflection" -> ReflectionOutputs(n, s)
      [] p = "multi_agent" -> MultiAgentOutputs(n, s)

(***************************************************************************)
(* One step of the graph run: node n returned `partial`; merge it, resolve *)
(* the node's edge on the merged state.  A router result outside the       *)
(* edge's mapping raises KeyError and ends the run.                        *)
(***************************************************************************)
\* node n calls llm.invoke / llm_with_tools.invoke in state s
CallsOracle(p, n, s) ==
    /\ n # "tools"
    /\ ~(p = "plan_execute" /\ n = "executor" /\ ExecutorIdle(s))

\* the oracle's reply as on_chat_model_stream events: a reply that carries
\* tool calls has no text, any other reply is one content fragment
Fragments(p, n, s, partial) ==
    IF CallsOracle(p, n, s) /\ Last(partial.messages).tool_calls = <<>>
    THEN <<"content">>
    ELSE <<>>

Commit(n, val, partial) ==
    LET s2 == Apply(state, partial)
        r == Route(pattern, n, s2)
        edges == Edges(pattern, n)
    IN  /\ state' = s2
        /\ steps' = steps + 1
        /\ trace' = Append(trace, [node |-> n, val |-> val])
        /\ lastRoute' = [from |-> n, value |-> r]
        /\ IF r \notin DOMAIN edges
           THEN /\ status' = "failed"
                /\ error' = "KeyError"
                /\ node' = node
                /\ checkpoint' = checkpoint
           ELSE /\ node' = edges[r]
                /\ status' = IF edges[r] = END THEN "done" ELSE "running"
                /\ error' = error
                /\ checkpoint' = [state |-> s2, next |-> edges[r],
                                  step |-> checkpoint.step + 1]
        /\ events' = IF endpoint = "stream"
                     THEN events \o Fragments(pattern, n, state, partial)
                     ELSE events
        /\ finished' = <<>>
        /\ UNCHANGED <<pattern, response, attempt, endpoint, requests, store, metrics>>

\* the fields node n reads as state[...]; a field no one has written yet is
\* not in the state the node receives, and reading it raises KeyError
NodeReads(p, n) ==
    CASE n = "tools" -> {"messages"}
      [] p = "react" -> {"messages", "iteration"}
      [] p = "plan_execute" ->
           (IF n = "executor" THEN {"current_step", "plan"} ELSE {"messages"})
      [] p = "reflection" ->
           (IF n = "generator" THEN {"messages", "iteration"} ELSE {"messages"})
      [] p = "multi_agent" -> {"messages"}

\* mutant: no step ceiling
CanStep_NoCeiling(p, n) ==
    /\ pattern = p
    /\ status = "running"
    /\ node = n
    /\ NodeReads(p, n) \subseteq DOMAIN state

CanStep(p, n) ==
    /\ pattern = p
    /\ status = "running"
    /\ node = n
    /\ steps < StepBudget
    /\ NodeReads(p, n) \subseteq DOMAIN state

ReasoningNode ==
    /\ CanStep("react", "reasoning")
    /\ \E resp \in LlmWithTools(state) :
          Commit("reasoning", Len(resp.tool_calls), reasoning_node(state, resp))

ReactToolsNode ==
    /\ CanStep("react", "tools")
    /\ Commit("tools", 0, tool_node(state))

PlannerNode ==
    /\ CanStep("plan_execute", "planner")
    /\ \E reply \in PlannerReplies :
          Commit("planner", Len(ParsePlan(reply)), planner_node(state, reply))

\* val: the plan index the oracle was called for, -1 when no call was made
ExecutorNode ==
    /\ CanStep("plan_execute", "executor")
    /\ IF ExecutorIdle(state)
       THEN Commit("executor", -1, executor_node(state, PlainAnswer))
       ELSE \E resp \in LlmWithTools(state) :
               Commit("executor", state.current_step, executor_node(state, resp))

PlanToolsNode ==
    /\ CanStep("plan_execute", "tools")
    /\ Commit("tools", 0, tool_node(state))

PlanSynthesizerNode ==
    /\ CanStep("plan_execute", "synthesizer")
    /\ Commit("synthesizer", 0, plan_synthesizer_node(state))

GeneratorNode ==
    /\ CanStep("reflection", "generator")
    /\ \E resp \in LlmWithTools(state) :
          Commit("generator", Len(resp.tool_calls), generator_node(state, resp))

\* val: the score the critic assigned
CriticNode ==
    /\ CanStep("reflection", "critic")
    /\ \E content \in CriticReplies :
          Commit("critic", ParseScore(content), critic_node(state, content))

ReflectToolsNode ==
    /\ CanStep("reflection", "tools")
    /\ Commit("tools", 0, tool_node(state))

\* val: 1 when the reply names a valid agent (blanks and capitals aside), else 0
SupervisorNode ==
    /\ CanStep("multi_agent", "supervisor")
    /\ \E content \in SupervisorReplies :
          Commit("supervisor", IF content.name \in Range(valid_agents) THEN 1 ELSE 0,
                 supervisor_node(state, content))

DataCollectorNode ==
    /\ CanStep("multi_agent", "data_collector")
    /\ \E resp \in LlmWithTools(state) :
          Commit("data_collector", Len(resp.tool_calls),
                 data_collector_node(state, resp))

TechnicalAnalystNode ==
    /\ CanStep("multi_agent", "technical_analyst")
    /\ Commit("technical_analyst", 0, technical_analyst_node(state))

ResearchAnalystNode ==
    /\ CanStep("multi_agent", "research_analyst")
    /\ \E resp \in LlmWithTools(state) :
          Commit("research_analyst", Len(resp.tool_calls),
                 research_analyst_node(state, resp))

RiskAssessorNode ==
    /\ CanStep("multi_agent", "risk_assessor")
    /\ \E confidence \in ConfidenceValues :
          Commit("risk_assessor", 0, risk_assessor_node(state, confidence))

SynthesizerNode ==
    /\ CanStep("multi_agent", "synthesizer")
    /\ Commit("synthesizer", 0, synthesizer_node(state))

MultiToolsNode ==
    /\ CanStep("multi_agent", "tools")
    /\ Commit("tools", 0, tool_node(state))

(***************************************************************************)
(* The step ceiling: a run still going after StepBudget steps is aborted.  *)
(***************************************************************************)
BudgetAbort ==
    /\ status = "running"
    /\ steps >= StepBudget
    /\ status' = "failed"
    /\ error' = "GraphRecursionError"
    /\ UNCHANGED <<pattern, state, node, steps, trace, lastRoute, response,
                   checkpoint, attempt, endpoint, events, finished, requests, store, metrics>>

(***************************************************************************)
(* invoke_agent: the initial state per pattern, and the response.          *)
(***************************************************************************)
NoResponse == [code |-> 0, error_type |-> "none"]

Patterns == {"react", "plan_execute", "reflection", "multi_agent"}

\* max_iterations is read by the react and reflection branches only
MaxIterationsOf(p) == IF p \in {"react", "reflection"} THEN 0..MaxIter ELSE {0}

InitialState(p, maxit) ==
    CASE p = "react" ->
           [messages |-> <<HumanMessage>>, iteration |-> 0, max_iterations |-> maxit]
      [] p = "plan_execute" ->
           [messages |-> <<HumanMessage>>, plan |-> <<>>, completed_steps |-> <<>>,
            current_step |-> 0, results |-> <<>>]
      [] p = "reflection" ->
           [messages |-> <<HumanMessage>>, draft |-> <<>>, critique |-> <<>>,
            iteration |-> 0, max_iterations |-> maxit, quality_score |-> 0]
      [] p = "multi_agent" ->
           [messages |-> <<HumanMessage>>, next_agent |-> "supervisor",
            completed_agents |-> <<>>, findings |-> <<>>, confidence |-> 0]

\* workflow.add_edge(START, ...)
EntryNode(p) ==
    CASE p = "react" -> "reasoning"
      [] p = "plan_execute" -> "planner"
      [] p = "reflection" -> "generator"
      [] p = "multi_agent" -> "supervisor"

\* Several requests at once.  A thread's state is written as the sequence
\* of the requests that appended a message to it.
MaxRequests == 2
MaxConcSteps == 2

Requests == 1..MaxRequests
Threads == {"t1", "t2"}
ConcPatterns == {"react", "reflection"}

\* agents[pattern] is one compiled graph with one MemorySaver; a checkpoint
\* is kept per thread id in it
Keys == ConcPatterns \X Threads

NewRequest ==
    [pc |-> "new", endpoint |-> "none", key |-> <<"react", "t1">>,
     local |-> <<>>, left |-> 0]

\* the fields the pattern's TypedDict declares
Schema(p) ==
    CASE p = "react" -> {"messages", "iteration", "max_iterations"}
      [] p = "plan_execute" ->
           {"messages", "plan", "completed_steps", "current_step", "results"}
      [] p = "reflection" ->
           {"messages", "draft", "critique", "iteration", "max_iterations",
            "quality_score"}
      [] p = "multi_agent" ->
           {"messages", "next_agent", "completed_agents", "findings", "confidence"}

\* ChatAnthropic gives a reply that asks for tools as a list of content
\* blocks, a plain reply as a string
ContentIsText(m) == m.tool_calls = <<>>

\* REQUEST_COUNT.labels(status=...).inc() / AGENT_ERRORS.labels(...).inc()
Inc(m, counter) == [m EXCEPT ![counter] = @ + 1]

\* invoke_agent after agent.invoke: the run's result (or exception) becomes
\* the response.  The success counter is incremented before AgentResponse
\* is built; AgentResponse.result is declared str, and building it from a
\* final message whose content is no string raises ValidationError, which
\* the same handler catches.
Respond ==
    /\ status # "running"
    /\ response = NoResponse
    /\ IF status = "done"
       THEN IF ContentIsText(Last(state.messages))
            THEN /\ metrics' = Inc(metrics, "success")
                 /\ response' = [code |-> 200, error_type |-> "none"]
            ELSE /\ metrics' = Inc(Inc(Inc(metrics, "success"), "error"), "agent_errors")
                 /\ response' = [code |-> 500, error_type |-> "ValidationError"]
       ELSE /\ metrics' = Inc(Inc(metrics, "error"), "agent_errors")
            /\ response' = [code |-> 500, error_type |-> error]
    /\ UNCHANGED <<pattern, state, node, status, error, steps, trace, lastRoute,
                   checkpoint, attempt, endpoint, events, finished, requests, store>>

Init ==
    /\ pattern \in Patterns
    /\ \E maxit \in MaxIterationsOf(pattern) : state = InitialState(pattern, maxit)
    /\ node = EntryNode(pattern)
    /\ status = "running"
    /\ error = "none"
    /\ steps = 0
    /\ trace = <<>>
    /\ lastRoute = [from |-> START, value |-> "next"]
    /\ response = NoResponse
    /\ checkpoint = [state |-> state, next |-> node, step |-> 0]
    /\ attempt = 0
    /\ endpoint = "invoke"
    /\ events = <<>>
    /\ finished = <<>>
    /\ requests = [r \in Requests |-> NewRequest]
    /\ store = [k \in Keys |-> <<>>]
    /\ metrics = [success |-> 0, error |-> 0, agent_errors |-> 0]

Next ==
    \/ ReasoningNode
    \/ ReactToolsNode
    \/ PlannerNode
    \/ ExecutorNode
    \/ PlanToolsNode
    \/ PlanSynthesizerNode
    \/ GeneratorNode
    \/ CriticNode
    \/ ReflectToolsNode
    \/ SupervisorNode
    \/ DataCollectorNode
    \/ TechnicalAnalystNode
    \/ ResearchAnalystNode
    \/ RiskAssessorNode
    \/ SynthesizerNode
    \/ MultiToolsNode
    \/ BudgetAbort
    \/ Respond

Spec == Init /\ [][Next]_vars

\* The run loop is synchronous: a step that can be taken is taken.
FairSpec == Spec /\ WF_vars(Next)

(***************************************************************************)
(* A failing oracle call, and the same request sent again with the same    *)
(* thread id.                                                              *)
(***************************************************************************)
MaxRetries == 1

\* the oracle fails within the first MaxFailStep + 1 steps of a run
MaxFailStep == 2

\* the oracle call raises inside the node: the node returns no update, the
\* step is not committed, invoke_agent's handler catches the exception
OracleFailure ==
    /\ status = "running"
    /\ steps <= MaxFailStep
    /\ attempt < MaxRetries
    /\ CallsOracle(pattern, node, state)
    /\ status' = "failed"
    /\ error' = "APIError"
    /\ UNCHANGED <<pattern, state, node, steps, trace, lastRoute, response,
                   checkpoint, attempt, endpoint, events, finished, requests, store, metrics>>

\* invoke_agent once more: it builds the full initial state again and passes
\* it to agent.invoke; the graph applies it to the thread's checkpointed
\* state as an update and starts at the entry node
Retry ==
    /\ response.error_type = "APIError"
    /\ attempt < MaxRetries
    /\ LET maxit == IF "max_iterations" \in DOMAIN checkpoint.state
                    THEN checkpoint.state.max_iterations ELSE 0
           s2 == Apply(checkpoint.state, InitialState(pattern, maxit))
       IN  /\ state' = s2
           /\ checkpoint' = [state |-> s2, next |-> EntryNode(pattern),
                             step |-> checkpoint.step]
    /\ node' = EntryNode(pattern)
    /\ steps' = 0
    /\ status' = "running"
    /\ error' = "none"
    /\ response' = NoResponse
    /\ attempt' = attempt + 1
    /\ UNCHANGED <<pattern, trace, lastRoute, endpoint, events, finished,
                   requests, store, metrics>>

ResumeNext ==
    \/ Next
    \/ OracleFailure
    \/ Retry

ResumeSpec == Init /\ [][ResumeNext]_vars

(***************************************************************************)
(* stream_agent: generate_stream runs the graph on a state that holds the  *)
(* messages only (and the two counters for react), yields a content event  *)
(* per fragment of an oracle reply, then the done marker; an exception     *)
(* yields the error marker instead.                                        *)
(***************************************************************************)
StreamState(p, maxit) ==
    IF p = "react"
    THEN [messages |-> <<HumanMessage>>, iteration |-> 0, max_iterations |-> maxit]
    ELSE [messages |-> <<HumanMessage>>]

StreamInit ==
    /\ pattern \in Patterns
    /\ \E maxit \in MaxIterationsOf(pattern) : state = StreamState(pattern, maxit)
    /\ node = EntryNode(pattern)
    /\ status = "running"
    /\ error = "none"
    /\ steps = 0
    /\ trace = <<>>
    /\ lastRoute = [from |-> START, value |-> "next"]
    /\ response = NoResponse
    /\ checkpoint = [state |-> state, next |-> node, step |-> 0]
    /\ attempt = 0
    /\ endpoint = "stream"
    /\ events = <<>>
    /\ finished = <<>>
    /\ requests = [r \in Requests |-> NewRequest]
    /\ store = [k \in Keys |-> <<>>]
    /\ metrics = [success |-> 0, error |-> 0, agent_errors |-> 0]

\* the node reads a field the state does not hold
MissingField ==
    /\ status = "running"
    /\ steps < StepBudget
    /\ ~(NodeReads(pattern, node) \subseteq DOMAIN state)
    /\ status' = "failed"
    /\ error' = "KeyError"
    /\ UNCHANGED <<pattern, state, node, steps, trace, lastRoute, response,
                   checkpoint, attempt, endpoint, events, finished, requests, store, metrics>>

\* mutant: the done marker is yielded after the handler's error marker too
StreamEnd_DoneAlways ==
    /\ status # "running"
    /\ response = NoResponse
    /\ events' = IF status = "done" THEN Append(events, "done")
                 ELSE events \o <<"error", "done">>
    /\ response' = [code |-> 200, error_type |-> error]
    /\ UNCHANGED <<pattern, state, node, status, error, steps, trace, lastRoute,
                   checkpoint, attempt, endpoint, finished,
                   requests, store, metrics>>

\* the last yield of generate_stream; the response is exhausted after it
StreamEnd ==
    /\ status # "running"
    /\ response = NoResponse
    /\ events' = Append(events, IF status = "done" THEN "done" ELSE "error")
    /\ response' = [code |-> 200, error_type |-> error]
    /\ UNCHANGED <<pattern, state, node, status, error, steps, trace, lastRoute,
                   checkpoint, attempt, endpoint, finished,
                   requests, store, metrics>>

\* Reflection's first node reads iteration, which the stream's state does
\* not hold: none of its nodes ever completes a step here.
StreamNext ==
    \/ ReasoningNode
    \/ ReactToolsNode
    \/ PlannerNode
    \/ ExecutorNode
    \/ PlanToolsNode
    \/ PlanSynthesizerNode
    \/ SupervisorNode
    \/ DataCollectorNode
    \/ TechnicalAnalystNode
    \/ ResearchAnalystNode
    \/ RiskAssessorNode
    \/ SynthesizerNode
    \/ MultiToolsNode
    \/ BudgetAbort
    \/ OracleFailure
    \/ MissingField
    \/ StreamEnd

StreamSpec == StreamInit /\ [][StreamNext]_vars

\* The response's consumer drains the generator: a step or yield that can
\* be taken is taken.
StreamFairSpec == StreamSpec /\ WF_vars(StreamNext)

(***************************************************************************)
(* The tools node step by step, on ReAct: the oracle asks for up to        *)
(* MaxToolBatch tools in one message, the tools return one at a time in    *)
(* any order, and the node's update is committed when all have returned.   *)
(***************************************************************************)
MaxToolBatch == 3

BatchCalls(s, n) ==
    [k \in 1..n |-> [name |-> tools[((k - 1) % Len(tools)) + 1],
                     id |-> Len(s.messages) * (MaxToolBatch + 1) + k]]

BatchReasoningNode ==
    /\ CanStep("react", "reasoning")
    /\ \E n \in 0..MaxToolBatch :
          Commit("reasoning", n, reasoning_node(state, AIMessage(BatchCalls(state, n))))

\* one tool of the batch returns
ToolFinish ==
    /\ CanStep("react", "tools")
    /\ \E call \in Range(Last(state.messages).tool_calls) \ Range(finished) :
          finished' = Append(finished, call)
    /\ UNCHANGED <<pattern, state, node, status, error, steps, trace, lastRoute,
                   response, checkpoint, attempt, endpoint, events, requests, store, metrics>>

\* every tool has returned: the node returns its update.  The step's value
\* in the trace is 1 when the tools did not return in request order.
BatchToolsNode ==
    /\ CanStep("react", "tools")
    /\ LET calls == Last(state.messages).tool_calls
       IN  /\ Range(finished) = Range(calls)
           /\ Commit("tools", IF finished = calls THEN 0 ELSE 1,
                     [messages |-> ToolResults(calls, finished)])

\* a ReAct run ends by its iteration limit long before the step ceiling
ToolInit == Init /\ pattern = "react"

ToolNext ==
    \/ BatchReasoningNode
    \/ ToolFinish
    \/ BatchToolsNode
    \/ Respond

ToolSpec == ToolInit /\ [][ToolNext]_vars

(***************************************************************************)
(* Requests on the event loop.  invoke_agent awaits nothing: its whole run *)
(* is one uninterrupted piece.  generate_stream suspends at every event    *)
(* of astream_events and at its sleep, so other requests run between the   *)
(* steps of a stream.  A run reads the thread's checkpoint once, when it   *)
(* starts, and writes the checkpoint after every step from its own copy.   *)
(* Nothing in the server or the agents serialises the runs of a thread.    *)
(***************************************************************************)
Running(r) == requests[r].pc = "running"

\* invoke_agent: the input is merged into the thread's state, the run's
\* steps follow, each one committed
InvokeRun ==
    \E r \in Requests, k \in Keys, n \in 1..MaxConcSteps :
        /\ requests[r].pc = "new"
        /\ LET final == store[k] \o [i \in 1..(n + 1) |-> r]
           IN  /\ store' = [store EXCEPT ![k] = final]
               /\ requests' = [requests EXCEPT ![r] =
                      [pc |-> "done", endpoint |-> "invoke", key |-> k,
                       local |-> final, left |-> 0]]
        /\ UNCHANGED <<pattern, state, node, status, error, steps, trace, lastRoute,
                       response, checkpoint, attempt, endpoint, events, finished,
                       metrics>>

\* generate_stream up to its first suspension: the input is merged into the
\* thread's state and committed
StreamStart ==
    \E r \in Requests, k \in Keys, n \in 1..MaxConcSteps :
        /\ requests[r].pc = "new"
        /\ LET first == Append(store[k], r)
           IN  /\ store' = [store EXCEPT ![k] = first]
               /\ requests' = [requests EXCEPT ![r] =
                      [pc |-> "running", endpoint |-> "stream", key |-> k,
                       local |-> first, left |-> n]]
        /\ UNCHANGED <<pattern, state, node, status, error, steps, trace, lastRoute,
                       response, checkpoint, attempt, endpoint, events, finished,
                       metrics>>

\* one step of a stream's run: the node's update is applied to the run's
\* own state, which is written as the thread's checkpoint
StreamStep ==
    \E r \in Requests :
        /\ Running(r)
        /\ LET req == requests[r]
               next == Append(req.local, r)
           IN  /\ store' = [store EXCEPT ![req.key] = next]
               /\ requests' = [requests EXCEPT ![r] =
                      [req EXCEPT !.local = next,
                                  !.left = req.left - 1,
                                  !.pc = IF req.left = 1 THEN "done" ELSE "running"]]
        /\ UNCHANGED <<pattern, state, node, status, error, steps, trace, lastRoute,
                       response, checkpoint, attempt, endpoint, events, finished,
                       metrics>>

ConcInit == Init /\ pattern = "react" /\ state.max_iterations = MaxIter

ConcNext ==
    \/ InvokeRun
    \/ StreamStart
    \/ StreamStep

ConcSpec == ConcInit /\ [][ConcNext]_vars

(***************************************************************************)
(* Properties.                                                             *)
(***************************************************************************)
Specialists == Range(valid_agents)

\* the scores of the critic executions, in order
CriticSteps == SelectSeq(trace, LAMBDA e : e.node = "critic")

\* the plan indexes the executor called the oracle for, in order
OracleSteps == SelectSeq(trace, LAMBDA e : e.node = "executor" /\ e.val >= 0)

\* tool calls requested by the generator executions so far
GeneratorAskedTools == \E i \in DOMAIN trace : trace[i].node = "generator" /\ trace[i].val > 0

\* C1: ReAct, started with iteration = 0 and max_iterations >= 1: the reasoning
\* node executes at most max_iterations times, and iteration equals the number
\* of reasoning-node executions (in every state, so in the final one).
C1_ReactIterationBound ==
    (pattern = "react" /\ state.max_iterations >= 1) =>
        /\ Count("reasoning") <= state.max_iterations
        /\ state.iteration = Count("reasoning")
        /\ (status = "running" => state.iteration < state.max_iterations)

C1_Witness ==
    /\ pattern = "react"
    /\ status = "done"
    /\ state.max_iterations >= 2
    /\ Count("reasoning") = state.max_iterations
    /\ Count("tools") = state.max_iterations - 1

\* C2: Supervisor: after a specialist node's step, unless the run ended because
\* synthesizer is completed, the run goes on and the next node is the tools
\* node or the supervisor.
C2_SpecialistReturnsToSupervisor ==
    (pattern = "multi_agent" /\ trace # <<>> /\ Last(trace).node \in Specialists) =>
        \/ status = "done" /\ "synthesizer" \in Range(state.completed_agents)
        \/ status = "running" /\ node \in {"tools", "supervisor"}
        \/ error = "GraphRecursionError"

\* C3: the value a router returned for a conditional edge is one of the
\* destinations declared in that edge's mapping.
C3_RouteDeclared ==
    lastRoute.from # START =>
        lastRoute.value \in DOMAIN Edges(pattern, lastRoute.from)

\* C4: Supervisor: in every state with 'synthesizer' in completed_agents the
\* routing decision of route_to_agent is 'end', and the run has ended by it.
C4_SynthesizerDoneRoutesToEnd ==
    (pattern = "multi_agent" /\ "synthesizer" \in Range(state.completed_agents)) =>
        /\ route_to_agent(state) = "end"
        /\ lastRoute = [from |-> "synthesizer", value |-> "end"]
        /\ status = "done"

C4_Witness ==
    /\ pattern = "multi_agent"
    /\ "synthesizer" \in Range(state.completed_agents)
    /\ state.next_agent = "synthesizer"
    /\ Len(state.completed_agents) >= 2
    /\ status = "done"

\* C5: Reflect: when the first critique scores 9.0 (and no tool was requested),
\* the run is exactly one generator execution followed by one critic
\* execution: no generator or critic execution follows.
C5_OneCycleOnGoodScore ==
    (/\ pattern = "reflection"
     /\ state.max_iterations >= 1
     /\ Count("tools") = 0
     /\ CriticSteps # <<>>
     /\ CriticSteps[1].val = 90) =>
        /\ Count("generator") = 1
        /\ Count("critic") = 1

\* C6: Reflect: when every critique scores 5.0 and the generator never asks for
\* tools, the run ends with max_iterations generator executions and
\* max_iterations critic executions.
C6_ExactlyMaxCycles ==
    (/\ pattern = "reflection"
     /\ state.max_iterations >= 1
     /\ status = "done"
     /\ ~GeneratorAskedTools
     /\ CriticSteps # <<>>
     /\ \A i \in DOMAIN CriticSteps : CriticSteps[i].val = 50) =>
        /\ Count("generator") = state.max_iterations
        /\ Count("critic") = state.max_iterations

\* C7: Plan-Execute: 0 <= current_step <= len(plan); the oracle calls of the
\* executor are for the plan indexes 0, 1, ... in increasing order, one each;
\* when control is with the synthesizer all len(plan) of them have been made
\* and current_step = len(plan).
C7_PlanExecutedInOrder ==
    pattern = "plan_execute" =>
        /\ 0 <= state.current_step
        /\ state.current_step <= Len(state.plan)
        /\ Len(OracleSteps) = state.current_step
        /\ \A i \in DOMAIN OracleSteps : OracleSteps[i].val = i - 1
        /\ (node = "synthesizer" \/ Count("synthesizer") > 0) =>
              /\ state.current_step = Len(state.plan)
              /\ Len(OracleSteps) = Len(state.plan)

C7_Witness ==
    /\ pattern = "plan_execute"
    /\ Count("synthesizer") = 1
    /\ Len(state.plan) >= 3
    /\ Count("tools") >= 2
    /\ Len(OracleSteps) = Len(state.plan)

C9_ReflectIterationBound ==
    (pattern = "reflection" /\ state.max_iterations >= 1) =>
        /\ state.iteration <= state.max_iterations
        /\ Count("generator") <= state.max_iterations

\* C10: every run ends: it takes at most StepBudget steps, it eventually stops
\* running, and a run ended by the step ceiling is answered with an error
\* naming the ceiling, which no other outcome is.
C10_EveryRunEnds ==
    /\ [][steps' <= StepBudget]_vars
    /\ <>(status # "running")
    /\ [](response # NoResponse =>
            /\ response.code = 200 => status = "done"
            /\ status = "failed" => response.code = 500
            /\ (response.error_type = "GraphRecursionError")
                  = (status = "failed" /\ steps = StepBudget /\ error = "GraphRecursionError"))

C10_Witness ==
    /\ pattern = "multi_agent"
    /\ "synthesizer" \notin Range(state.completed_agents)
    /\ steps = StepBudget
    /\ response = [code |-> 500, error_type |-> "GraphRecursionError"]

IsPrefix(a, b) == Len(a) <= Len(b) /\ SubSeq(b, 1, Len(a)) = a

NoDuplicates(s) == Cardinality(Range(s)) = Len(s)

\* the score parse finds no number: no "SCORE:" marker, or no number after it
Unparseable(content) == ~(content.marker /\ content.numeric)

\* C15: Supervisor: after every execution of the supervisor node next_agent is
\* one of the five valid names; a reply that names none of them once stripped
\* and lower-cased gives data_collector, a reply that names one gives that one.
C15_NextAgentValidated ==
    pattern = "multi_agent" =>
        /\ (trace # <<>> /\ Last(trace).node = "supervisor") =>
              /\ state.next_agent \in Range(valid_agents)
              /\ (Last(trace).val = 0 => state.next_agent = "data_collector")
        /\ \A content \in SupervisorReplies :
              supervisor_node(state, content).next_agent =
                 IF content.name \in Range(valid_agents)
                 THEN content.name ELSE "data_collector"

C15_Witness ==
    /\ pattern = "multi_agent"
    /\ trace # <<>>
    /\ Last(trace) = [node |-> "supervisor", val |-> 0]
    /\ state.next_agent = "data_collector"
    /\ Count("supervisor") >= 2

\* C16: Reflect: a critique without a parseable score sets quality_score to the
\* default 7.5; the critic raises nothing and hands over to the generator, and
\* a run that ends with that score ends because iteration reached
\* max_iterations, not because of the score.
C16_MalformedScoreDefaults ==
    (/\ pattern = "reflection"
     /\ state.critique # <<>>
     /\ Unparseable(state.critique[1])) =>
        /\ state.quality_score = DefaultScore
        /\ state.quality_score < QualityThreshold
        /\ Last(trace).node = "critic" =>
              /\ node = "generator"
              /\ status = "running" \/ error = "GraphRecursionError"
        /\ status = "done" => state.iteration >= state.max_iterations

C16_Witness ==
    /\ pattern = "reflection"
    /\ state.critique # <<>>
    /\ Unparseable(state.critique[1])
    /\ state.critique[1].marker
    /\ Last(trace).node = "generator"
    /\ status = "running"
    /\ node = "critic"

\* C17: Supervisor: no specialist node executes twice in a run and
\* completed_agents holds no name twice.
C17_NoSpecialistTwice ==
    pattern = "multi_agent" =>
        /\ \A a \in Specialists : Count(a) <= 1
        /\ NoDuplicates(state.completed_agents)

\* C20: messages is append-only: the messages before a step are a prefix of
\* the messages after it.
C20_MessagesAppendOnly ==
    [][IsPrefix(state.messages, state'.messages)]_vars

C20_Witness ==
    /\ Len(state.messages) >= 5
    /\ Count("tools") >= 2
    /\ status = "done"

EmptyUpdate == [f \in {} |-> 0]

\* two updates merged field by field, in order: messages concatenated, every
\* other field last-write-wins
MergeUpdates(p1, p2) ==
    [f \in DOMAIN p1 \cup DOMAIN p2 |->
        IF f = "messages"
        THEN (IF f \in DOMAIN p1 THEN p1[f] ELSE <<>>)
             \o (IF f \in DOMAIN p2 THEN p2[f] ELSE <<>>)
        ELSE IF f \in DOMAIN p2 THEN p2[f] ELSE p1[f]]

\* the node that follows node n once its update has given state s, or END
Successor(p, n, s) ==
    LET r == Route(p, n, s)
    IN  IF r \in DOMAIN Edges(p, n) THEN Edges(p, n)[r] ELSE END

\* for every update the next node can return and every update the node after
\* it can return: fields absent from the first keep their value, and the two
\* applied in sequence equal their merge applied once
SequentialEqualsMerged ==
    \A p1 \in NodeOutputs(pattern, node, state) :
        LET s1 == Apply(state, p1)
            n1 == Successor(pattern, node, s1)
        IN  /\ DOMAIN s1 = DOMAIN state
            /\ \A f \in DOMAIN state \ DOMAIN p1 : s1[f] = state[f]
            /\ n1 # END =>
                  \A p2 \in NodeOutputs(pattern, n1, s1) :
                      Apply(s1, p2) = Apply(state, MergeUpdates(p1, p2))

\* C18: applying an update is a pure merge: the empty update changes nothing,
\* absent fields keep their value (max_iterations never changes in a ReAct or
\* Reflect run), and two updates applied in sequence equal their field-wise
\* merge applied once.
C18_ApplyIsPureMerge ==
    /\ [](Apply(state, EmptyUpdate) = state)
    /\ [](status = "running" => SequentialEqualsMerged)
    /\ [][(pattern \in {"react", "reflection"}) =>
             state'.max_iterations = state.max_iterations]_vars

C18_Witness ==
    /\ pattern = "reflection"
    /\ status = "running"
    /\ node = "critic"
    /\ state.max_iterations >= 2
    /\ Count("tools") >= 1

\* a step that sends the request again on the same thread
IsRetry == attempt' = attempt + 1

\* C11: a run interrupted after step N and resumed with the same thread id
\* continues with step N+1: it goes on at the node the checkpoint names as
\* next, so that no step is lost or executed twice.
C11_ResumeContinuesAtNextStep ==
    [][IsRetry => node' = checkpoint.next]_vars

\* C12: after an oracle failure was propagated to the caller, a retry with the
\* same thread id takes up the last committed checkpoint's state: the user
\* query is not appended again and no counter is reset.
C12_RetryKeepsCheckpointState ==
    [][IsRetry => (response.code = 500 /\ state' = checkpoint.state)]_vars

Markers == {"done", "error"}

StreamEnded == events # <<>> /\ Last(events) \in Markers

\* C13: the stream is a finite sequence of events that ends with exactly one
\* terminal marker, its last event: done after a run that ended normally,
\* error after an exception at any point of the run; every content fragment
\* comes before the marker.
C13_StreamEndsWithOneMarker ==
    /\ [](\A i \in DOMAIN events : events[i] \in Markers => i = Len(events))
    /\ [](StreamEnded <=> response # NoResponse)
    /\ [](StreamEnded => (Last(events) = "error" <=> status = "failed"))
    /\ [][StreamEnded => events' = events]_vars
    /\ [][status = "failed" => status' = "failed"]_vars
    /\ <>StreamEnded

C13_Witness ==
    /\ endpoint = "stream"
    /\ StreamEnded
    /\ Last(events) = "error"
    /\ Len(events) >= 3
    /\ error = "APIError"

\* every message that asks for tools is the last one, or is followed by one
\* result per call, in the order of the calls, each carrying its call's id
BatchAnswered(msgs) ==
    \A j \in DOMAIN msgs :
        LET calls == msgs[j].tool_calls
        IN  (calls # <<>> /\ j < Len(msgs)) =>
                /\ j + Len(calls) <= Len(msgs)
                /\ \A k \in 1..Len(calls) : msgs[j + k] = ToolMessage(calls[k].id)

\* C19: the results of a batch of tool calls are appended in the order of the
\* calls, each tagged with its call's id, whatever order the tools return in;
\* while the batch is running the state, the next node and the checkpoint
\* stay as they are, and the tools node is left only with the whole batch
\* appended.
C19_BatchResultsInRequestOrder ==
    /\ [](BatchAnswered(state.messages))
    /\ [](BatchAnswered(checkpoint.state.messages))
    /\ [][Len(finished') > Len(finished) =>
             (state' = state /\ checkpoint' = checkpoint /\ node' = node
              /\ trace' = trace)]_vars
    /\ [][(node = "tools" /\ node' # "tools") =>
             (/\ Range(finished) = Range(Last(state.messages).tool_calls)
              /\ Len(state'.messages) =
                    Len(state.messages) + Len(Last(state.messages).tool_calls))]_vars

C19_Witness ==
    /\ trace # <<>>
    /\ Last(trace) = [node |-> "tools", val |-> 1]
    /\ Len(state.messages) >= 5
    /\ state.messages[2].tool_calls # <<>>
    /\ Len(state.messages[2].tool_calls) = 3
    /\ checkpoint.state = state

\* C14: in no reachable state are two requests running against the same
\* thread id of a pattern, under any interleaving of invoke and stream
\* requests; a running request's state is the thread's committed one.
C14_ThreadExclusive ==
    \A r1, r2 \in Requests :
        (r1 # r2 /\ Running(r1) /\ Running(r2)) =>
            requests[r1].key # requests[r2].key

\* a step in which a node function ran to its return
NodeReturned == steps' = steps + 1

\* C21: no node function modifies the state object it receives: after the
\* node has returned, its input state is what it was when the node was called.
C21_NodesLeaveInputUnchanged ==
    [][NodeReturned => InputAfter(pattern, node, state) = state]_vars

\* C22: every partial update a node can return names only fields the pattern's
\* state schema declares, and the state never holds a field outside it.
C22_UpdatesNameDeclaredFields ==
    /\ DOMAIN state \subseteq Schema(pattern)
    /\ (status = "running" /\ steps < StepBudget) =>
          \A update \in NodeOutputs(pattern, node, state) :
              DOMAIN update \subseteq Schema(pattern)

C22_Witness ==
    /\ pattern = "reflection"
    /\ trace # <<>>
    /\ Last(trace).node = "critic"
    /\ state.critique # <<>>
    /\ state.quality_score = 90
    /\ status = "running"

\* C23: Plan-Execute: the planner is the first step of a run and executes
\* once; once it has run, plan (and results, completed_steps) never change
\* again and every step leaves current_step as it is or adds exactly 1.
C23_PlannerOncePlanFixed ==
    /\ [](pattern = "plan_execute" =>
            /\ Count("planner") <= 1
            /\ trace # <<>> => (trace[1].node = "planner" /\ Count("planner") = 1))
    /\ [][(pattern = "plan_execute" /\ Count("planner") >= 1) =>
             /\ state'.plan = state.plan
             /\ state'.results = state.results
             /\ state'.completed_steps = state.completed_steps
             /\ state'.current_step \in {state.current_step, state.current_step + 1}]_vars

C23_Witness ==
    /\ pattern = "plan_execute"
    /\ status = "done"
    /\ Len(state.plan) >= 2
    /\ state.current_step = Len(state.plan)
    /\ Count("tools") >= 1
    /\ Count("planner") = 1

\* C24: Plan-Execute ends by its own logic whatever the oracle answers and
\* whatever the plan's length N >= 0: the executor executes at most N + 1
\* times, the tools node at most N times, the synthesizer once, as the last
\* step; the run never fails and eventually is done.
C24_PlanExecuteTerminates ==
    /\ [](pattern = "plan_execute" =>
            /\ Count("executor") <= Len(state.plan) + 1
            /\ Count("tools") <= Len(state.plan)
            /\ Count("synthesizer") <= 1
            /\ status # "failed"
            /\ Count("synthesizer") = 1 <=> status = "done"
            /\ status = "done" => Last(trace).node = "synthesizer")
    /\ <>(pattern = "plan_execute" => status = "done")

C24_Witness ==
    /\ pattern = "plan_execute"
    /\ status = "done"
    /\ Len(state.plan) = 2
    /\ Count("executor") = 3
    /\ Count("tools") = 2
    /\ Count("synthesizer") = 1

\* C25: Plan-Execute: the executor execution that follows the tools node
\* works on the plan index whose oracle call asked for the tools; the index
\* is not advanced in the step that emits the request.
C25_IndexHeldUntilToolResults ==
    pattern = "plan_execute" =>
        \A i \in DOMAIN trace :
            (/\ 1 < i
             /\ i < Len(trace)
             /\ trace[i].node = "tools"
             /\ trace[i + 1].node = "executor") =>
                trace[i + 1].val = trace[i - 1].val

\* generator executions whose reply was a draft, not a request for tools
DraftSteps == SelectSeq(trace, LAMBDA e : e.node = "generator" /\ e.val = 0)

\* C26: Reflect: a run that ends ends after a critic execution, so that
\* quality_score is the critic's score of the final draft and every draft
\* has been critiqued.
C26_FinalDraftCritiqued ==
    (pattern = "reflection" /\ status = "done") =>
        /\ Last(trace).node = "critic"
        /\ state.quality_score = Last(trace).val
        /\ Len(CriticSteps) = Len(DraftSteps)

\* C27: the state generate_stream builds holds every field the pattern's
\* nodes read without a default: no stream ends with the error marker at a
\* node that found a field missing.
C27_StreamStateHasReadFields ==
    (endpoint = "stream" /\ StreamEnded /\ Last(events) = "error") =>
        NodeReads(pattern, node) \subseteq DOMAIN state

\* C28: a call of invoke_agent increments REQUEST_COUNT exactly once, as
\* success exactly when the response is returned and as error exactly when
\* HTTP 500 is raised, never as both; AGENT_ERRORS is incremented only with
\* the error count.
C28_RequestCountedOnce ==
    /\ metrics.success + metrics.error <= 1
    /\ metrics.agent_errors = metrics.error
    /\ response = NoResponse => metrics.success + metrics.error = 0
    /\ response # NoResponse =>
          /\ metrics.success + metrics.error = 1
          /\ metrics.success = 1 <=> response.code = 200
          /\ metrics.error = 1 <=> response.code = 500

=============================================================================
